---- MODULE Spec2Model ----
(***************************************************************************)
(* The automation loop of android-autoclicker (src/game/automation.py,     *)
(* run_automation) with the helpers it calls: find_template                *)
(* (src/core/image_processing.py), tap_screen (src/core/adb.py) and        *)
(* clean_up (src/utils/helpers.py).                                        *)
(*                                                                         *)
(* Python's None is the empty tuple; an optional scalar v is <<v>>; a      *)
(* screen point is the pair <<x, y>>.  Time is counted in ticks: `elapsed` *)
(* is time.time() - update_time, saturated above every scan interval       *)
(* because the loop only ever compares it with scan_interval.              *)
(*                                                                         *)
(* The operator's stop signal (KeyboardInterrupt) is delivered by the      *)
(* environment at most once per run, at any position inside the try block  *)
(* of run_automation.                                                      *)
(*                                                                         *)
(* Five specifications share the module.  Spec (and FairSpec) is           *)
(* run_automation from its entry.  StartupSpec is main (run.py) with the   *)
(* Config class (src/utils/config.py): the section dicts are objects on a  *)
(* heap, because Config copies DEFAULT_CONFIG shallowly and two instances  *)
(* can refer to the same dict.  LocatorSpec is one call of find_template,  *)
(* CleanupSpec one call of cleanup_temp_files on a directory of files, and *)
(* ValidateSpec one call of Config.validate on Python values (null,        *)
(* numbers, nan, strings).  Each of them leaves the variables of the       *)
(* others at rest.                                                         *)
(***************************************************************************)
EXTENDS Integers, Sequences, FiniteSets, TLC

\* ------------------------------------------------------------------ bounds
MaxInterval == 2    \* largest scan interval tried, in ticks
MaxOffset == 1      \* largest automation.random_offset tried
MaxDelay == 1       \* largest click_speed.max_delay tried, in ticks
MaxCount == 2       \* the event counters saturate here

\* ------------------------------------------------------------ Python values
None == <<>>
Some(v) == <<v>>
Get(o) == o[1]

Min(a, b) == IF a < b THEN a ELSE b
Max(S) == CHOOSE m \in S : \A n \in S : n <= m
Inc(n) == Min(n + 1, MaxCount)

\* ------------------------------------------------------------------ inputs
ClickModes == {"template", "coordinates"}
ScanIntervals == {None} \cup {Some(n) : n \in 1..MaxInterval}
CoordXs == {None, Some(3), Some(-1)}
CoordYs == {None, Some(0)}
\* ticks a blocking device call (adb, the settle delay) can take
OpDurations == {0, 1}
\* the time a call takes when the loop's clock is not read after it
NoDuration == {0}
Thresholds == {80}
\* what one screen capture and match can look like
Scores == {79, 80, 100}
MatchLocs == {<<0, 0>>, <<2, 1>>}
TemplateSizes == {<<1, 3>>}
Screens ==
    [raises : BOOLEAN, rc : {0, 1}, screenshot : BOOLEAN, template : BOOLEAN,
     max_val : Scores, max_loc : MatchLocs, size : TemplateSizes,
     written : BOOLEAN]

ElapsedCap == MaxInterval + 1

VARIABLES
    scan_interval,      \* automation.py:22
    random_offset,      \* automation.py:23
    min_delay,          \* automation.py:24
    max_delay,          \* automation.py:25
    click_mode,         \* automation.py:26
    threshold,          \* image_processing.py:23
    x, y,               \* automation.py:31-32
    location,           \* automation.py:39,44,68
    last_location,      \* automation.py:54,76
    current_location,   \* automation.py:80
    elapsed,            \* time.time() - update_time (automation.py:53,58,60)
    pc,                 \* position of run_automation
    exit_status,        \* "running", or the status the process exits with
    reason,             \* how the loop terminated
    interrupted,        \* a KeyboardInterrupt has been delivered
    lost,               \* "no", or which find_template call returned None
    revalidating,       \* a periodic check has started and has no outcome yet
    taps,               \* tap_screen calls so far (saturating)
    tapOk,              \* what this cycle's tap_screen call returned
    lastTap,            \* the point drawn for the tap_screen call about to be made
    sleepsSinceTap,     \* line-89 sleeps since the last tap (saturating)
    locates,            \* find_template calls so far (saturating)
    cleanupsSinceInterrupt, \* clean_up calls since the interrupt (saturating)
    cleanupsSinceLost,  \* clean_up calls since a failed locate (saturating)
    cleanupFailed,      \* some step of the last clean_up failed
    cleanupLocal,       \* how the local step of the clean_up just returned went
    cleanupDevice,      \* the clean_up just returned reached its device step
    delay,              \* the delay this cycle slept at line 89
    tapLogged,          \* this cycle's tap_screen call wrote a log entry
    artifacts,          \* capture files of this run in tmp/ (saturating)
    capture,            \* find_template alone: what the capture and match give
    call_threshold,     \* find_template alone: the threshold of the call
    result,             \* find_template alone: the value returned
    locatorPc,          \* find_template alone: "call", then "returned"
    args,               \* run.py:119, the parsed command line
    config_file,        \* ./config.json: None when absent, or its content
    writable,           \* config.json can be created in the working directory
    heap,               \* the section dicts, by the object that created them
    refs,               \* per Config instance: whose dict each section is
    template_ok,        \* the template path exists with a supported suffix
    adb_installed,      \* `adb version` succeeds
    devices,            \* the ordered list `adb devices` reports
    device_id,          \* run.py:209
    deviceOps,          \* adb commands issued by main so far
    mainPc,             \* position of main
    main_exit,          \* "running", or the status main exits with
    failedAt,           \* "none", or the stage of main that ended the process
    \* one call of cleanup_temp_files (helpers.py:14-32)
    tmp_files,          \* what each name in the directory is now
    tmp_before,         \* what it was when the call was made
    max_age_hours,      \* the call's second argument
    cleanupPc,          \* "not_called", "call", "returned"
    \* one call of Config.validate (config.py:185-241)
    candidate,          \* the values get() returns to validate
    valid,              \* what validate returned
    validatePc          \* "not_called", "call", "returned"

settings == <<scan_interval, random_offset, min_delay, max_delay, click_mode, threshold>>
locals == <<x, y, location, last_location, current_location, elapsed>>
control == <<pc, exit_status, reason, interrupted, lost, revalidating>>
tapState == <<taps, tapOk, lastTap, sleepsSinceTap, delay, tapLogged>>
cleanupCounts == <<cleanupsSinceInterrupt, cleanupsSinceLost, cleanupFailed>>
housekeeping == <<cleanupCounts, cleanupLocal, cleanupDevice>>
loopVars ==
    <<settings, locals, control, tapState, locates, housekeeping, artifacts>>
locatorVars == <<capture, call_threshold, result, locatorPc>>
cleanupVars == <<tmp_files, tmp_before, max_age_hours, cleanupPc>>
validateVars == <<candidate, valid, validatePc>>
environment == <<args, writable, template_ok, adb_installed, devices>>
configState == <<config_file, heap, refs>>
mainState == <<device_id, deviceOps, mainPc, main_exit, failedAt>>
startupVars == <<environment, configState, mainState>>
beyondLoop == <<locatorVars, startupVars, cleanupVars, validateVars>>
vars == <<loopVars, locatorVars, startupVars, cleanupVars, validateVars>>

\* ----------------------------------------------------------------- helpers
\* variant: a best score equal to the threshold is refused
find_template_Strict(s, th) ==
    IF s.raises THEN None
    ELSE IF s.rc # 0 THEN None
    ELSE IF ~s.screenshot THEN None
    ELSE IF ~s.template THEN None
    ELSE IF s.max_val > th
         THEN <<s.max_loc[1] + (s.size[1] \div 2), s.max_loc[2] + (s.size[2] \div 2)>>
         ELSE None

\* variant: the halves are rounded up
find_template_RoundUp(s, th) ==
    IF s.raises THEN None
    ELSE IF s.rc # 0 THEN None
    ELSE IF ~s.screenshot THEN None
    ELSE IF ~s.template THEN None
    ELSE IF s.max_val >= th
         THEN <<s.max_loc[1] + ((s.size[1] + 1) \div 2),
                s.max_loc[2] + ((s.size[2] + 1) \div 2)>>
         ELSE None

\* image_processing.py:24-62: None on a capture that exits non-zero, on an
\* undecodable screenshot or template, on a raised exception and on a best
\* score below the threshold; otherwise the centre of the best match.
find_template(s, th) ==
    IF s.raises THEN None
    ELSE IF s.rc # 0 THEN None
    ELSE IF ~s.screenshot THEN None
    ELSE IF ~s.template THEN None
    ELSE IF s.max_val >= th
         THEN <<s.max_loc[1] + (s.size[1] \div 2), s.max_loc[2] + (s.size[2] \div 2)>>
         ELSE None

\* adb.py:30-39: True iff the adb command ran and exited with 0.
tap_screen(rc, raised) == IF raised THEN FALSE ELSE rc = 0

\* adb.py:37-38: the only log entry of tap_screen is the one of its handler
tap_screen_logs(rc, raised) == raised

\* image_processing.py:26-30: the shell creates tmp/screen_<t>.png before adb
\* runs, so a capture that completes has written it; a capture that fails
\* (tmp/ missing, no shell) may have written none
ArtifactWritten(s) == IF ~s.raises /\ s.rc = 0 THEN TRUE ELSE s.written

\* variant: the files are younger than max_age_hours and are all kept
TempFilesLeft_KeepYoung(n, failed) == {n}

\* helpers.py:17-29: the capture files left in tmp/ out of n; every file is
\* unlinked whatever its age, a failure can leave any of them behind
TempFilesLeft(n, failed) == IF failed THEN 0..n ELSE {0}

\* variant: a failure of the local step is raised to the caller
cleanup_temp_files_Raising(failed) == IF failed THEN "raises" ELSE "returns"

\* helpers.py:14-32: every failure is caught and logged.
cleanup_temp_files(failed) == "returns"

\* variant: a failing device rm is raised to the caller
cleanup_device_screenshots_Raising(rc, raised) ==
    IF rc # 0 \/ raised THEN "raises" ELSE "returns"

\* helpers.py:34-44: a non-zero exit is logged, an exception is caught.
cleanup_device_screenshots(rc, raised) == "returns"

\* helpers.py:46-49: the local step, then the device step.
clean_up(localFailed, rc, raised) ==
    IF cleanup_temp_files(localFailed) = "raises" THEN "raises"
    ELSE cleanup_device_screenshots(rc, raised)

\* how the local step of a clean_up call went
LocalStep(localFailed) == IF localFailed THEN "failed" ELSE "ok"

\* helpers.py:48-49: the device step runs once the local step has returned
DeviceStepReached(localFailed) == cleanup_temp_files(localFailed) = "returns"

\* some step of a clean_up call did not succeed
CleanUpFailure(localFailed, rc, raised) == localFailed \/ rc # 0 \/ raised

\* variant: a null scan interval is read as 0
ScanDue_NullAsZero(si, el) == el > (IF si = None THEN 0 ELSE Get(si))

\* variant: the check is due as soon as the interval has elapsed
ScanDue_Inclusive(si, el) == si # None /\ el >= Get(si)

\* automation.py:58: the periodic check is due
ScanDue(si, el) == si # None /\ el > Get(si)

\* variant: every mode re-scans
RescanInMode_Always(mode) == TRUE

\* automation.py:65: only template mode re-scans
RescanInMode(mode) == mode = "template"

\* variant: a successful re-scan leaves the tapped location where it was
LastLocation_Stale(last, loc) == last

\* automation.py:76: a successful re-scan moves the tapped location
LastLocation(last, loc) == loc

\* variant: a failed re-scan keeps tapping the last known location
AfterRescan_KeepTapping(loc) == "tap"

\* variant: the test of the re-scan's result is inverted
AfterRescan_Inverted(loc) == IF loc = None THEN "tap" ELSE "lost"

\* automation.py:69-76: where the loop goes with the re-scan's result
AfterRescan(loc) == IF loc = None THEN "lost" ELSE "tap"

\* automation.py:80: the point this cycle taps around
CurrentLocation(mode, last, loc) == IF mode = "template" THEN last ELSE loc

\* variant: the upper end is one too far
RandInt_OffByOne(a, b) == a..(b + 1)

\* random.randint(a, b), automation.py:83-84: both ends included
RandInt(a, b) == a..b

\* variant: a failed tap is handled like a lost target
AfterTap_FatalOnFailure(ok) == IF ok THEN "sleep" ELSE "lost"

\* automation.py:86-89: tap_screen's result is discarded
AfterTap(ok) == "sleep"

\* variant: the draw can exceed the upper end
Uniform_Wide(a, b) == a..(b + 1)

\* random.uniform(a, b) in ticks, automation.py:89
Uniform(a, b) == a..b

\* the clock moves on by d ticks
Advance(el, d) == Min(el + d, ElapsedCap)

\* the loop has moved on from the clean_up that returned last
CleanUpBehind ==
    /\ cleanupLocal' = "none"
    /\ cleanupDevice' = FALSE
    /\ UNCHANGED cleanupCounts

\* positions of run_automation inside its try block (automation.py:28-90)
TryPcs ==
    {"start", "config_error", "acq_failed", "loop_top", "periodic_cleanup",
     "rescan", "lost", "lost_exit", "tap", "tap_call", "sleep"}

\* positions of the while loop (automation.py:56-89) before a fatal result
RunningPcs ==
    {"loop_top", "periodic_cleanup", "rescan", "tap", "tap_call", "sleep"}

\* the process ends: sys.exit(1) passes main's `except Exception`
\* (run.py:216), a normal return of run_automation ends main with status 0
Exit(status, why) ==
    /\ pc' = "exited"
    /\ exit_status' = status
    /\ reason' = why

\* an exception other than KeyboardInterrupt leaves run_automation and is
\* caught by main (run.py:216-219)
Propagate == Exit("1", "Error")

\* ------------------------------------------------- find_template alone
LocatorThresholds == {0, 80, 100}
LocatorScores == {0, 79, 80, 81, 100}
LocatorLocs == {<<0, 0>>, <<100, 100>>, <<7, 3>>}
\* <<w, h>> of the template, image_processing.py:52
LocatorSizes == {<<40, 20>>, <<1, 1>>, <<5, 9>>}
LocatorScreens ==
    [raises : BOOLEAN, rc : {0, 1}, screenshot : BOOLEAN, template : BOOLEAN,
     max_val : LocatorScores, max_loc : LocatorLocs, size : LocatorSizes]

\* which of its exits a find_template call takes (image_processing.py:31-62)
Outcome(s, th) ==
    IF s.raises THEN "exception"
    ELSE IF s.rc # 0 THEN "capture_failed"
    ELSE IF ~s.screenshot \/ ~s.template THEN "decode_failed"
    ELSE IF s.max_val >= th THEN "found"
    ELSE "not_found"

\* find_template is not being called on its own
LocatorParked ==
    /\ capture = None /\ call_threshold = 0 /\ result = None
    /\ locatorPc = "not_called"

\* ------------------------------------------- cleanup_temp_files alone
\* the names a temp directory can hold, and what a name can be
TempNames == {".gitkeep", "screen_1.png", "notes.txt"}
Absent == None
FileAges == {1, 30}
TempEntries == {Absent} \cup [kind : {"file", "dir"}, age_hours : FileAges]
\* helpers.py:14 and config.py:42-45: the default is 24 hours
MaxAgeChoices == {24, 48}
\* os.path.exists is false, os.listdir raises, or the names are listed
Listings == {"missing", "raises", "listed"}

\* helpers.py:16-32: the directory after the call. `failing` are the names
\* whose os.unlink raises; max_age_hours and the current time are not used.
unlink_files(files, max_age, listing, failing) ==
    IF listing # "listed" THEN files
    ELSE [f \in DOMAIN files |->
            IF f = ".gitkeep" THEN files[f]
            ELSE IF files[f] = Absent THEN Absent
            ELSE IF files[f].kind = "file" /\ f \notin failing THEN Absent
            ELSE files[f]]

CleanupParked ==
    /\ tmp_files = None /\ tmp_before = None
    /\ max_age_hours = 0 /\ cleanupPc = "not_called"

\* ----------------------------------------------------- Config (config.py)
\* the dotted keys the program reads, and the section dict each one lives in
Section ==
    [min_delay |-> "click_speed", max_delay |-> "click_speed",
     threshold |-> "image_matching",
     scan_interval |-> "automation", random_offset |-> "automation",
     mode |-> "click_mode",
     x |-> "coordinates", y |-> "coordinates"]
Keys == DOMAIN Section
Sections == {Section[k] : k \in Keys}

\* config.py:13-50; delays in tenths of a second, the threshold in percent
DEFAULT_CONFIG ==
    [min_delay |-> 1, max_delay |-> 2, threshold |-> 80,
     scan_interval |-> Some(30), random_offset |-> 2,
     mode |-> "template", x |-> None, y |-> None]

\* the objects that hold section dicts: the class attribute DEFAULT_CONFIG,
\* the module's instance (config.py:244) and main's instance (run.py:123)
Owners == {"default", "global", "main"}
Instances == {"global", "main"}

\* a config.json: whether it parses, the sections and keys it has, its values
File(secs, keys, vals) ==
    [ok |-> TRUE, secs |-> secs, keys |-> keys,
     vals |-> [k \in Keys |-> IF k \in keys THEN vals[k] ELSE DEFAULT_CONFIG[k]]]
Malformed == [ok |-> FALSE, secs |-> {}, keys |-> {}, vals |-> DEFAULT_CONFIG]
ConfigFiles ==
    {None,
     Malformed,
     File({}, {}, DEFAULT_CONFIG),
     File({"automation"}, {"scan_interval"}, [scan_interval |-> Some(5)]),
     File({"image_matching"}, {"threshold"}, [threshold |-> 150]),
     File({"click_mode", "coordinates"}, {"mode", "x", "y"},
          [mode |-> "coordinates", x |-> Some(-1), y |-> Some(3)])}

\* config.py:126-144 on the instance whose section references are r
get(h, r, k) == h[r[Section[k]]][k]

\* config.py:146-163: the value is written into the dict the instance refers to
set(h, r, k, v) == [h EXCEPT ![r[Section[k]]][k] = v]

\* config.py:99-112: DEFAULT_CONFIG.copy() is shallow, every section dict is
\* DEFAULT_CONFIG's own; config.json is written when that is possible
create_default_config(h, f, w) ==
    [heap |-> h,
     refs |-> [s \in Sections |-> "default"],
     file |-> IF w THEN File(Sections, Keys, h["default"]) ELSE f]

\* config.py:114-124: a section of the file gets a new dict, the defaults
\* overlaid with the file's keys; any other section stays DEFAULT_CONFIG's dict
merge_configs(h, inst, f) ==
    [heap |-> [h EXCEPT ![inst] =
                  [k \in Keys |-> IF Section[k] \in f.secs /\ k \in f.keys
                                  THEN f.vals[k] ELSE h["default"][k]]],
     refs |-> [s \in Sections |-> IF s \in f.secs THEN inst ELSE "default"],
     file |-> f]

\* config.py:52-59 and 79-97 for Config() and for Config(None)
load_config(h, inst, f, w) ==
    IF f = None THEN create_default_config(h, f, w)
    ELSE IF ~f.ok THEN create_default_config(h, f, w)
    ELSE merge_configs(h, inst, f)

\* config.py:185-241
validate(h, r) ==
    LET min == get(h, r, "min_delay")
        max == get(h, r, "max_delay")
        th == get(h, r, "threshold")
        si == get(h, r, "scan_interval")
        off == get(h, r, "random_offset")
        mode == get(h, r, "mode")
        cx == get(h, r, "x")
        cy == get(h, r, "y")
    IN  IF min < 0 \/ max < 0 \/ min > max THEN FALSE
        ELSE IF ~(0 <= th /\ th <= 100) THEN FALSE
        ELSE IF si # None /\ Get(si) < 1 THEN FALSE
        ELSE IF off < 0 THEN FALSE
        ELSE IF mode \notin {"template", "coordinates"} THEN FALSE
        ELSE IF mode = "coordinates"
             THEN IF cx = None \/ cy = None THEN FALSE
                  ELSE IF Get(cx) < 0 \/ Get(cy) < 0 THEN FALSE
                  ELSE TRUE
        ELSE TRUE

\* --------------------------------------------- Config.validate alone
\* the values a JSON file or the command line can put behind a key: null, an
\* int or float, the float nan, a string
PyNum(n) == <<"num", n>>
NaN == <<"nan">>
PyStr(t) == <<"str", t>>
\* isinstance(v, (int, float)); comparing any other value with a number
\* raises TypeError
Comparable(v) == v # None /\ v[1] \in {"num", "nan"}
\* Python's a < b and a <= b on int and float: False when either is nan
Lt(a, b) == a # NaN /\ b # NaN /\ a[2] < b[2]
Le(a, b) == a # NaN /\ b # NaN /\ a[2] <= b[2]

\* config.py:185-241 on the values get() returns; thresholds in percent. A
\* comparison that raises TypeError is caught at lines 239-241: False.
validate_values(c) ==
    IF ~Comparable(c.min_delay) THEN FALSE
    ELSE IF Lt(c.min_delay, PyNum(0)) THEN FALSE
    ELSE IF ~Comparable(c.max_delay) THEN FALSE
    ELSE IF Lt(c.max_delay, PyNum(0)) \/ Lt(c.max_delay, c.min_delay) THEN FALSE
    ELSE IF ~Comparable(c.threshold) THEN FALSE
    ELSE IF ~(Le(PyNum(0), c.threshold) /\ Le(c.threshold, PyNum(100))) THEN FALSE
    ELSE IF c.scan_interval # None /\ ~Comparable(c.scan_interval) THEN FALSE
    ELSE IF c.scan_interval # None /\ Lt(c.scan_interval, PyNum(1)) THEN FALSE
    ELSE IF ~Comparable(c.random_offset) THEN FALSE
    ELSE IF Lt(c.random_offset, PyNum(0)) THEN FALSE
    ELSE IF c.mode \notin {PyStr("template"), PyStr("coordinates")} THEN FALSE
    ELSE IF c.mode = PyStr("coordinates")
         THEN IF c.x = None \/ c.y = None THEN FALSE
              ELSE IF ~Comparable(c.x) \/ ~Comparable(c.y) THEN FALSE
              ELSE IF Lt(c.x, PyNum(0)) \/ Lt(c.y, PyNum(0)) THEN FALSE
              ELSE TRUE
    ELSE TRUE

\* the resolved settings one call can find
Candidates ==
    [min_delay : {PyNum(-1), PyNum(0), PyNum(2), NaN, PyStr("fast")},
     max_delay : {PyNum(-1), PyNum(1), NaN},
     threshold : {PyNum(-1), PyNum(0), PyNum(100), PyNum(101), NaN},
     scan_interval : {None, PyNum(0), PyNum(1), NaN},
     random_offset : {PyNum(-1), PyNum(0), NaN},
     mode : {PyStr("template"), PyStr("coordinates"), PyStr("swipe")},
     x : {None, PyNum(-1), PyNum(3), NaN, PyStr("3")},
     y : {None, PyNum(-1), PyNum(0)}]

ValidateParked ==
    /\ candidate = None /\ valid = FALSE /\ validatePc = "not_called"

\* ------------------------------------------------------- main (run.py)
\* the command line: an option that was not given is None
ArgSets ==
    [threshold : {None, Some(90), Some(150)},
     click_speed : {None, <<0, 1>>, <<2, 1>>},
     scan_interval : {None, Some(0), Some(5), Some(-1)},
     coordinates : {None, <<5, 5>>, <<-1, 5>>},
     click_mode : {None, Some("coordinates")},
     device : {None, Some(1)}]
DeviceLists == {<<>>, <<"emulator-5554", "R58M">>}

\* run.py:127
ThresholdOverrideOk(t) == 0 <= t /\ t <= 100

\* run.py:134
ClickSpeedOverrideOk(speed) ==
    ~(speed[1] < 0 \/ speed[2] < 0 \/ speed[1] > speed[2])

\* variant: a negative --scan-interval is let through
ScanIntervalOverrideOk_Any(n) == TRUE

\* run.py:142
ScanIntervalOverrideOk(n) == ~(n < 0)

\* run.py:146: 0 turns re-scanning off
ScanIntervalValue(n) == IF n = 0 THEN None ELSE Some(n)

\* run.py:151
CoordinatesOverrideOk(c) == ~(c[1] < 0 \/ c[2] < 0)

\* run.py:126-159 on main's instance: the overrides in the order of the code;
\* the first one that is refused ends the process with the earlier ones set
ApplyOverrides(h, r, a) ==
    LET s1 == IF a.threshold = None THEN [ok |-> TRUE, heap |-> h]
              ELSE IF ~ThresholdOverrideOk(Get(a.threshold))
                   THEN [ok |-> FALSE, heap |-> h]
              ELSE [ok |-> TRUE, heap |-> set(h, r, "threshold", Get(a.threshold))]
        s2 == IF ~s1.ok \/ a.click_speed = None THEN s1
              ELSE IF ~ClickSpeedOverrideOk(a.click_speed)
                   THEN [ok |-> FALSE, heap |-> s1.heap]
              ELSE [ok |-> TRUE,
                    heap |-> set(set(s1.heap, r, "min_delay", a.click_speed[1]),
                                 r, "max_delay", a.click_speed[2])]
        s3 == IF ~s2.ok \/ a.scan_interval = None THEN s2
              ELSE IF ~ScanIntervalOverrideOk(Get(a.scan_interval))
                   THEN [ok |-> FALSE, heap |-> s2.heap]
              ELSE [ok |-> TRUE,
                    heap |-> set(s2.heap, r, "scan_interval",
                                 ScanIntervalValue(Get(a.scan_interval)))]
        s4 == IF ~s3.ok \/ a.coordinates = None THEN s3
              ELSE IF ~CoordinatesOverrideOk(a.coordinates)
                   THEN [ok |-> FALSE, heap |-> s3.heap]
              ELSE [ok |-> TRUE,
                    heap |-> set(set(set(s3.heap, r, "mode", "coordinates"),
                                     r, "x", Some(a.coordinates[1])),
                                 r, "y", Some(a.coordinates[2]))]
    IN  IF ~s4.ok \/ a.click_mode = None THEN s4
        ELSE [ok |-> TRUE, heap |-> set(s4.heap, r, "mode", Get(a.click_mode))]

\* helpers.py:63: the parameters get_connected_device declares
DeclaredParameters == 0
\* run.py:209: the arguments main passes to it
PassedArguments == 1

\* a Python call: the argument count must fit the signature
Call(declared, passed) == IF passed = declared THEN "enters" ELSE "TypeError"

\* helpers.py:63-94: None without adb or without a device, else the first
\* device of the list
get_connected_device(installed, devs) ==
    IF ~installed THEN None
    ELSE IF devs = <<>> THEN None
    ELSE Some(devs[1])

\* adb commands one get_connected_device call issues (helpers.py:54, adb.py:11)
DeviceCommands(installed) == IF installed THEN 2 ELSE 1

\* what run_automation and find_template read: the module's instance
\* (automation.py:19-26, image_processing.py:22-23)
LoopReads(k) == get(heap, refs["global"], k)

\* main has not been started
StartupParked ==
    /\ args = None /\ config_file = None /\ writable = FALSE
    /\ heap = None /\ refs = None
    /\ template_ok = FALSE /\ adb_installed = FALSE /\ devices = <<>>
    /\ device_id = None /\ deviceOps = 0
    /\ mainPc = "not_started" /\ main_exit = "running" /\ failedAt = "none"

\* ------------------------------------------------------------------- Init
\* the state at automation.py:28, the settings read
Init ==
    /\ scan_interval \in ScanIntervals
    /\ random_offset \in 0..MaxOffset
    /\ min_delay \in 0..MaxDelay
    /\ max_delay \in min_delay..MaxDelay
    /\ click_mode \in ClickModes
    /\ threshold \in Thresholds
    /\ x = None /\ y = None
    /\ location = None /\ last_location = None /\ current_location = None
    /\ elapsed = 0
    /\ pc = "start"
    /\ exit_status = "running"
    /\ reason = "none"
    /\ interrupted = FALSE
    /\ lost = "no"
    /\ revalidating = FALSE
    /\ taps = 0 /\ tapOk = TRUE /\ lastTap = None
    /\ sleepsSinceTap = 0
    /\ locates = 0
    /\ cleanupsSinceInterrupt = 0 /\ cleanupsSinceLost = 0
    /\ cleanupFailed = FALSE
    /\ cleanupLocal = "none" /\ cleanupDevice = FALSE
    /\ delay = None
    /\ tapLogged = FALSE
    /\ artifacts = 0
    /\ LocatorParked
    /\ StartupParked
    /\ CleanupParked
    /\ ValidateParked

\* ---------------------------------------------------------------- actions
\* automation.py:29-39 and 53-54
StartCoordinates ==
    /\ pc = "start"
    /\ click_mode = "coordinates"
    /\ \E cx \in CoordXs, cy \in CoordYs :
        /\ x' = cx
        /\ y' = cy
        /\ IF cx = None \/ cy = None
           THEN /\ pc' = "config_error"
                /\ UNCHANGED <<location, last_location, elapsed>>
           ELSE /\ location' = <<Get(cx), Get(cy)>>
                /\ last_location' = location'
                /\ elapsed' = 0
                /\ pc' = "loop_top"
    /\ UNCHANGED <<settings, current_location, exit_status, reason, interrupted,
                   lost, revalidating, tapState, locates, housekeeping>>
    /\ UNCHANGED <<artifacts, beyondLoop>>
\* automation.py:35-36
ConfigError ==
    /\ pc = "config_error"
    /\ Exit("1", "ConfigurationError")
    /\ UNCHANGED <<settings, locals, interrupted, lost, revalidating, tapState,
                   locates, housekeeping>>
    /\ UNCHANGED <<artifacts, beyondLoop>>
\* automation.py:41-46 and 51-54
InitialScan ==
    /\ pc = "start"
    /\ click_mode # "coordinates"
    /\ \E scan \in {<<find_template(s, threshold), ArtifactWritten(s)>> : s \in Screens} :
        /\ location' = scan[1]
        /\ artifacts' = IF scan[2] THEN Inc(artifacts) ELSE artifacts
        /\ locates' = Inc(locates)
        /\ IF location' = None
           THEN /\ pc' = "acq_failed"
                /\ lost' = "initial"
                /\ UNCHANGED <<last_location, elapsed>>
           ELSE /\ pc' = "loop_top"
                /\ last_location' = location'
                /\ elapsed' = 0
                /\ UNCHANGED lost
    /\ UNCHANGED <<settings, x, y, current_location, exit_status, reason,
                   interrupted, revalidating, tapState, housekeeping>>
    /\ UNCHANGED beyondLoop

\* automation.py:47-49
InitialScanFailed ==
    /\ pc = "acq_failed"
    /\ Exit("1", "InitialAcquisitionFailed")
    /\ UNCHANGED <<settings, locals, interrupted, lost, revalidating, tapState,
                   locates, housekeeping>>
    /\ UNCHANGED <<artifacts, beyondLoop>>
\* automation.py:58-60; a new cycle begins, the last cycle's tap is forgotten
LoopTop ==
    /\ pc = "loop_top"
    /\ tapOk' = TRUE
    /\ lastTap' = None
    /\ delay' = None
    /\ tapLogged' = FALSE
    /\ IF ScanDue(scan_interval, elapsed)
       THEN /\ elapsed' = 0
            /\ revalidating' = TRUE
            /\ pc' = "periodic_cleanup"
       ELSE /\ pc' = "tap"
            /\ UNCHANGED <<elapsed, revalidating>>
    /\ UNCHANGED <<settings, x, y, location, last_location, current_location,
                   exit_status, reason, interrupted, lost, taps, sleepsSinceTap,
                   locates, housekeeping>>
    /\ UNCHANGED <<artifacts, beyondLoop>>
\* one call of clean_up taking one of `durations` ticks: its counters, and
\* the exception it would raise
CleanUpCall(durations, next) ==
    \E call \in {<<clean_up(localFailed, rc, raised),
                    CleanUpFailure(localFailed, rc, raised),
                    LocalStep(localFailed), DeviceStepReached(localFailed)>> :
                      localFailed \in BOOLEAN, rc \in {0, 1}, raised \in BOOLEAN},
       t \in durations :
      \E left \in TempFilesLeft(artifacts, call[3] = "failed") :
        /\ artifacts' = left
        /\ cleanupFailed' = call[2]
        /\ cleanupLocal' = call[3]
        /\ cleanupDevice' = call[4]
        /\ cleanupsSinceInterrupt' =
               IF interrupted THEN Inc(cleanupsSinceInterrupt) ELSE 0
        /\ cleanupsSinceLost' = IF lost # "no" THEN Inc(cleanupsSinceLost) ELSE 0
        /\ elapsed' = Advance(elapsed, t)
        /\ IF call[1] = "raises" THEN Propagate ELSE next

\* automation.py:63-65 and 77
PeriodicCleanUp ==
    /\ pc = "periodic_cleanup"
    /\ CleanUpCall(OpDurations,
                   /\ UNCHANGED <<exit_status, reason>>
                   /\ IF RescanInMode(click_mode)
                      THEN pc' = "rescan" /\ UNCHANGED revalidating
                      ELSE pc' = "tap" /\ revalidating' = FALSE)
    /\ UNCHANGED <<settings, x, y, location, last_location, current_location,
                   interrupted, lost, tapState, locates>>
    /\ UNCHANGED beyondLoop

\* automation.py:67-76: settle, re-scan, and the branch on the result
Rescan ==
    /\ pc = "rescan"
    /\ \E scan \in {<<find_template(s, threshold), ArtifactWritten(s)>> : s \in Screens},
          t \in OpDurations :
        /\ location' = scan[1]
        /\ artifacts' = IF scan[2] THEN Inc(artifacts) ELSE artifacts
        /\ locates' = Inc(locates)
        /\ elapsed' = Advance(elapsed, t)
        /\ pc' = AfterRescan(location')
        /\ IF location' = None
           THEN /\ lost' = "periodic"
                /\ UNCHANGED <<last_location, revalidating>>
           ELSE /\ last_location' = LastLocation(last_location, location')
                /\ revalidating' = FALSE
                /\ UNCHANGED lost
    /\ CleanUpBehind
    /\ UNCHANGED <<settings, x, y, current_location, exit_status, reason,
                   interrupted, tapState>>
    /\ UNCHANGED beyondLoop

\* automation.py:70-72
LostCleanUp ==
    /\ pc = "lost"
    /\ CleanUpCall(NoDuration, pc' = "lost_exit" /\ UNCHANGED <<exit_status, reason>>)
    /\ UNCHANGED <<settings, x, y, location, last_location, current_location,
                   interrupted, lost, revalidating, tapState, locates>>
    /\ UNCHANGED beyondLoop

\* automation.py:73
LostExit ==
    /\ pc = "lost_exit"
    /\ Exit("1", "TargetLost")
    /\ CleanUpBehind
    /\ UNCHANGED <<settings, locals, interrupted, lost, revalidating, tapState,
                   locates>>
    /\ UNCHANGED <<artifacts, beyondLoop>>
\* automation.py:80-84: the cycle's location and the point drawn around it
PickPoint ==
    /\ pc = "tap"
    /\ current_location' = CurrentLocation(click_mode, last_location, location)
    /\ \E random_x \in RandInt(current_location'[1] - random_offset,
                               current_location'[1] + random_offset),
          random_y \in RandInt(current_location'[2] - random_offset,
                               current_location'[2] + random_offset) :
        lastTap' = <<random_x, random_y>>
    /\ pc' = "tap_call"
    /\ CleanUpBehind
    /\ UNCHANGED <<settings, x, y, location, last_location, elapsed, exit_status,
                   reason, interrupted, lost, revalidating, taps, tapOk,
                   sleepsSinceTap, delay, tapLogged, locates>>
    /\ UNCHANGED <<artifacts, beyondLoop>>
\* automation.py:86: the tap_screen call on the drawn point; its result is
\* discarded, and the point is not used again
Tap ==
    /\ pc = "tap_call"
    /\ \E call \in {<<tap_screen(rc, raised), tap_screen_logs(rc, raised)>> :
                        rc \in {0, 1}, raised \in BOOLEAN},
          t \in OpDurations :
        /\ tapOk' = call[1]
        /\ tapLogged' = call[2]
        /\ elapsed' = Advance(elapsed, t)
        /\ pc' = AfterTap(tapOk')
    /\ lastTap' = None
    /\ taps' = Inc(taps)
    /\ sleepsSinceTap' = 0
    /\ UNCHANGED <<settings, locals, exit_status, reason, interrupted, lost,
                   revalidating, delay, locates, housekeeping>>
    /\ UNCHANGED <<artifacts, beyondLoop>>
\* automation.py:89
Sleep ==
    /\ pc = "sleep"
    /\ \E d \in Uniform(min_delay, max_delay) :
        /\ delay' = Some(d)
        /\ elapsed' = Advance(elapsed, d)
    /\ sleepsSinceTap' = Inc(sleepsSinceTap)
    /\ pc' = "loop_top"
    /\ UNCHANGED <<settings, x, y, location, last_location, current_location,
                   exit_status, reason, interrupted, lost, revalidating, taps,
                   tapOk, lastTap, tapLogged, locates, housekeeping>>
    /\ UNCHANGED <<artifacts, beyondLoop>>
\* a KeyboardInterrupt raised inside the try block is caught at
\* automation.py:91; it ends the cycle, whose tap, delay and clean_up are
\* forgotten
Interrupt ==
    /\ pc \in TryPcs
    /\ ~interrupted
    /\ interrupted' = TRUE
    /\ cleanupsSinceInterrupt' = 0
    /\ pc' = "interrupted"
    /\ tapOk' = TRUE /\ lastTap' = None /\ delay' = None /\ tapLogged' = FALSE
    /\ cleanupLocal' = "none" /\ cleanupDevice' = FALSE
    /\ UNCHANGED <<settings, locals, exit_status, reason, lost, revalidating,
                   taps, sleepsSinceTap, locates, cleanupsSinceLost,
                   cleanupFailed>>
    /\ UNCHANGED <<artifacts, beyondLoop>>
\* automation.py:92-94, then main returns (run.py:214)
InterruptCleanUp ==
    /\ pc = "interrupted"
    /\ CleanUpCall(NoDuration, Exit("0", "UserCancelled"))
    /\ UNCHANGED <<settings, x, y, location, last_location, current_location,
                   interrupted, lost, revalidating, tapState, locates>>
    /\ UNCHANGED beyondLoop

\* the loop's own steps
LoopStep ==
    \/ StartCoordinates
    \/ ConfigError
    \/ InitialScan
    \/ InitialScanFailed
    \/ LoopTop
    \/ PeriodicCleanUp
    \/ Rescan
    \/ LostCleanUp
    \/ LostExit
    \/ PickPoint
    \/ Tap
    \/ Sleep
    \/ InterruptCleanUp

Next == LoopStep \/ Interrupt

Spec == Init /\ [][Next]_vars

\* the interpreter keeps executing run_automation, and every device call returns
FairSpec == Spec /\ WF_vars(LoopStep)

TypeOK ==
    /\ pc \in TryPcs \cup {"interrupted", "exited"}
    /\ exit_status \in {"running", "0", "1"}
    /\ elapsed \in 0..ElapsedCap
    /\ taps \in 0..MaxCount /\ locates \in 0..MaxCount
    /\ (pc = "exited") = (exit_status # "running")

\* run_automation has not been called
LoopParked ==
    /\ scan_interval = None /\ random_offset = 0
    /\ min_delay = 0 /\ max_delay = 0
    /\ click_mode = "template" /\ threshold = 0
    /\ x = None /\ y = None
    /\ location = None /\ last_location = None /\ current_location = None
    /\ elapsed = 0
    /\ pc = "not_called"
    /\ exit_status = "running"
    /\ reason = "none"
    /\ interrupted = FALSE
    /\ lost = "no"
    /\ revalidating = FALSE
    /\ taps = 0 /\ tapOk = TRUE /\ lastTap = None
    /\ sleepsSinceTap = 0
    /\ locates = 0
    /\ cleanupsSinceInterrupt = 0 /\ cleanupsSinceLost = 0
    /\ cleanupFailed = FALSE
    /\ cleanupLocal = "none" /\ cleanupDevice = FALSE
    /\ delay = None
    /\ tapLogged = FALSE
    /\ artifacts = 0

\* --------------------------------------------- find_template on its own
\* one call of find_template(device_id, template_path, threshold)
LocatorInit ==
    /\ capture \in LocatorScreens
    /\ call_threshold \in LocatorThresholds
    /\ result = None
    /\ locatorPc = "call"
    /\ LoopParked
    /\ StartupParked
    /\ CleanupParked
    /\ ValidateParked

\* image_processing.py:24-62
Locate ==
    /\ locatorPc = "call"
    /\ result' = find_template(capture, call_threshold)
    /\ locatorPc' = "returned"
    /\ UNCHANGED <<capture, call_threshold, loopVars, startupVars,
                   cleanupVars, validateVars>>

LocatorNext == Locate

LocatorSpec == LocatorInit /\ [][LocatorNext]_vars

\* ------------------------------------------------------ main on its own
\* the process at run.py:119: the command line parsed, no Config built yet
StartupInit ==
    /\ args \in ArgSets
    /\ config_file \in ConfigFiles
    /\ writable \in BOOLEAN
    /\ template_ok \in BOOLEAN
    /\ adb_installed \in BOOLEAN
    /\ devices \in DeviceLists
    /\ heap = [o \in Owners |-> DEFAULT_CONFIG]
    /\ refs = [i \in Instances |-> [s \in Sections |-> "default"]]
    /\ device_id = None
    /\ deviceOps = 0
    /\ mainPc = "import"
    /\ main_exit = "running"
    /\ failedAt = "none"
    /\ LoopParked
    /\ LocatorParked
    /\ CleanupParked
    /\ ValidateParked

\* sys.exit(1) in main, or the handler at run.py:216-219
MainFails(stage) ==
    /\ mainPc' = "exited"
    /\ main_exit' = "1"
    /\ failedAt' = stage

\* run.py:122 imports src.utils.config, which builds the module's instance
\* (config.py:243-244)
ImportConfig ==
    /\ mainPc = "import"
    /\ LET c == load_config(heap, "global", config_file, writable)
       IN  /\ heap' = c.heap
           /\ refs' = [refs EXCEPT !["global"] = c.refs]
           /\ config_file' = c.file
    /\ mainPc' = "construct"
    /\ UNCHANGED <<environment, device_id, deviceOps, main_exit, failedAt,
                   loopVars, locatorVars,
                   cleanupVars, validateVars>>

\* run.py:123 without --config
ConstructConfig ==
    /\ mainPc = "construct"
    /\ LET c == load_config(heap, "main", config_file, writable)
       IN  /\ heap' = c.heap
           /\ refs' = [refs EXCEPT !["main"] = c.refs]
           /\ config_file' = c.file
    /\ mainPc' = "overrides"
    /\ UNCHANGED <<environment, device_id, deviceOps, main_exit, failedAt,
                   loopVars, locatorVars,
                   cleanupVars, validateVars>>

\* run.py:125-159
Overrides ==
    /\ mainPc = "overrides"
    /\ LET o == ApplyOverrides(heap, refs["main"], args)
       IN  /\ heap' = o.heap
           /\ IF o.ok
              THEN mainPc' = "validate" /\ UNCHANGED <<main_exit, failedAt>>
              ELSE MainFails("override")
    /\ UNCHANGED <<environment, config_file, refs, device_id, deviceOps,
                   loopVars, locatorVars,
                   cleanupVars, validateVars>>

\* run.py:161-164
Validate ==
    /\ mainPc = "validate"
    /\ IF validate(heap, refs["main"])
       THEN mainPc' = "template" /\ UNCHANGED <<main_exit, failedAt>>
       ELSE MainFails("validate")
    /\ UNCHANGED <<environment, configState, device_id, deviceOps, loopVars, cleanupVars,
                   validateVars,
                   locatorVars>>

\* run.py:166-176
CheckTemplate ==
    /\ mainPc = "template"
    /\ IF template_ok
       THEN mainPc' = "device" /\ UNCHANGED <<main_exit, failedAt>>
       ELSE MainFails("template")
    /\ UNCHANGED <<environment, configState, device_id, deviceOps, loopVars, cleanupVars,
                   validateVars,
                   locatorVars>>

\* run.py:208-219: the call, its result, and the handler of what it raises
GetDevice ==
    /\ mainPc = "device"
    /\ IF Call(DeclaredParameters, PassedArguments) = "TypeError"
       THEN /\ MainFails("exception")
            /\ UNCHANGED <<device_id, deviceOps>>
       ELSE /\ device_id' = get_connected_device(adb_installed, devices)
            /\ deviceOps' = deviceOps + DeviceCommands(adb_installed)
            /\ IF device_id' = None
               THEN MainFails("device")
               ELSE mainPc' = "run" /\ UNCHANGED <<main_exit, failedAt>>
    /\ UNCHANGED <<environment, configState, loopVars, locatorVars,
                   cleanupVars, validateVars>>

StartupNext ==
    \/ ImportConfig
    \/ ConstructConfig
    \/ Overrides
    \/ Validate
    \/ CheckTemplate
    \/ GetDevice

StartupSpec == StartupInit /\ [][StartupNext]_vars

\* -------------------------------------------- cleanup_temp_files on its own
\* one call of cleanup_temp_files(directory, max_age_hours)
CleanupInit ==
    /\ tmp_files \in [TempNames -> TempEntries]
    /\ tmp_before = tmp_files
    /\ max_age_hours \in MaxAgeChoices
    /\ cleanupPc = "call"
    /\ LoopParked
    /\ LocatorParked
    /\ StartupParked
    /\ ValidateParked

\* helpers.py:14-32
CleanupTempFiles ==
    /\ cleanupPc = "call"
    /\ \E listing \in Listings, failing \in SUBSET (TempNames \ {".gitkeep"}) :
        tmp_files' = unlink_files(tmp_files, max_age_hours, listing, failing)
    /\ cleanupPc' = "returned"
    /\ UNCHANGED <<tmp_before, max_age_hours, loopVars, locatorVars, startupVars,
                   validateVars>>

CleanupNext == CleanupTempFiles

CleanupSpec == CleanupInit /\ [][CleanupNext]_vars

\* ------------------------------------------------ Config.validate on its own
\* one call of validate() on a Config whose get() returns `candidate`
ValidateInit ==
    /\ candidate \in Candidates
    /\ valid = FALSE
    /\ validatePc = "call"
    /\ LoopParked
    /\ LocatorParked
    /\ StartupParked
    /\ CleanupParked

\* config.py:185-241
ValidateCall ==
    /\ validatePc = "call"
    /\ valid' = validate_values(candidate)
    /\ validatePc' = "returned"
    /\ UNCHANGED <<candidate, loopVars, locatorVars, startupVars, cleanupVars>>

ValidateNext == ValidateCall

ValidateSpec == ValidateInit /\ [][ValidateNext]_vars

\* ------------------------------------------------------------ properties
\* the step is a tap_screen call (automation.py:86)
TapStep == pc = "tap_call" /\ pc' \notin {"tap_call", "interrupted"}

\* p lies within off pixels of c on both axes
InBox(p, c, off) ==
    /\ c[1] - off <= p[1] /\ p[1] <= c[1] + off
    /\ c[2] - off <= p[2] /\ p[2] <= c[2] + off

\* C1: in template mode, when the first find_template call returns None the
\* run ends with InitialAcquisitionFailed and a non-zero exit status, and no
\* tap was ever issued.
C1_InitialMissIsFatal ==
    lost = "initial" =>
        /\ taps = 0
        /\ pc = "exited" =>
            reason = "InitialAcquisitionFailed" /\ exit_status = "1"

\* C2: in template mode with a scan interval, when a periodic re-scan returns
\* None the loop neither taps nor re-scans again, clean_up runs after the
\* failed re-scan and the process exits with a non-zero status (TargetLost).
C2_TargetLostIsFatal ==
    lost = "periodic" =>
        /\ pc \in {"lost", "lost_exit", "interrupted", "exited"}
        /\ pc = "exited" =>
            /\ cleanupsSinceLost >= 1
            /\ reason = "TargetLost"
            /\ exit_status = "1"

\* C3: after a KeyboardInterrupt delivered anywhere inside the try block,
\* clean_up is called exactly once before the process exits, and the exit is
\* the normal return whether or not a step of that clean_up failed.
C3_CleanupOnceOnInterrupt ==
    interrupted =>
        /\ pc \in {"interrupted", "exited"}
        /\ pc = "interrupted" => cleanupsSinceInterrupt = 0
        /\ pc = "exited" =>
            /\ cleanupsSinceInterrupt = 1
            /\ reason = "UserCancelled"
            /\ exit_status = "0"

\* C3 witness: interrupted during the TargetLost clean-up, the handler's own
\* clean_up failed, and the process has exited.
C3_Witness ==
    /\ pc = "exited" /\ interrupted /\ cleanupFailed
    /\ lost = "periodic" /\ cleanupsSinceLost = 1 /\ cleanupsSinceInterrupt = 1

\* C4: the reason decides the exit status: failure after a find_template
\* call returned None (InitialAcquisitionFailed, TargetLost), also when an
\* interrupt arrives afterwards, and normal status only for UserCancelled.
C4_ReasonDecidesExit ==
    pc = "exited" =>
        /\ lost # "no" => exit_status = "1"
        /\ reason \in {"InitialAcquisitionFailed", "TargetLost"} => exit_status = "1"
        /\ reason = "UserCancelled" => exit_status = "0"

\* C5: with scan_interval None the loop never calls find_template after the
\* initial acquisition and never enters the periodic check.
C5_NoRescanWithoutInterval ==
    scan_interval = None =>
        /\ locates <= 1
        /\ ~revalidating
        /\ pc \notin {"periodic_cleanup", "rescan", "lost", "lost_exit"}
        /\ lost # "periodic"

\* C5 witness: scan_interval None, several tap cycles done and more time
\* elapsed than any scan interval.
C5_Witness ==
    /\ scan_interval = None /\ click_mode = "template"
    /\ taps = MaxCount /\ elapsed = ElapsedCap /\ locates = 1 /\ pc = "loop_top"

\* C6: in coordinates mode find_template is never called, neither at entry
\* nor at a periodic check.
C6_CoordinatesNeverLocate ==
    click_mode = "coordinates" =>
        /\ locates = 0
        /\ lost = "no"
        /\ pc \notin {"acq_failed", "rescan", "lost", "lost_exit"}

\* C6 witness: coordinates mode, a periodic check has run its clean_up and
\* the loop is tapping again.
C6_Witness ==
    /\ click_mode = "coordinates" /\ scan_interval # None
    /\ cleanupFailed /\ ~interrupted /\ pc = "sleep" /\ taps = MaxCount

\* C7: the point passed to tap_screen lies within random_offset of the
\* cycle's current location on both axes, and that current location is the
\* loop's location.
C7_TapWithinOffset ==
    lastTap # None =>
        /\ InBox(lastTap, current_location, random_offset)
        /\ pc = "tap_call" => current_location = last_location

\* C7 witness: a tap at a corner of the box, random_offset pixels off on
\* both axes.
C7_Witness ==
    /\ lastTap # None /\ random_offset = MaxOffset /\ pc = "tap_call"
    /\ lastTap[1] = current_location[1] + random_offset
    /\ lastTap[2] = current_location[2] - random_offset

\* C8: a tap_screen call that returns False is followed by the delay and the
\* next cycle; it changes neither the location nor the scan timestamp and
\* does not end the process.
C8_FailedTapNotFatal ==
    [][/\ (TapStep /\ ~tapOk') =>
            /\ pc' = "sleep"
            /\ location' = location /\ last_location' = last_location
            /\ elapsed' >= elapsed
            /\ exit_status' = "running"
       /\ (pc = "sleep" /\ ~tapOk /\ pc' \notin {"sleep", "interrupted"}) =>
            /\ pc' = "loop_top"
            /\ location' = location /\ last_location' = last_location
            /\ exit_status' = "running"]_vars

\* C8 witness: a failed tap, not the first tap, was followed by its delay and
\* the loop is at the top of the next cycle.
C8_Witness ==
    /\ pc = "loop_top" /\ ~tapOk /\ sleepsSinceTap = 1
    /\ taps = MaxCount /\ elapsed > 0

\* C9: a run that stays in the while loop issues taps infinitely often, and
\* the loop is left only by an interrupt or by a periodic re-scan that
\* returned None.
C9_TapsForever ==
    /\ []<>(pc \notin RunningPcs) \/ []<><<TapStep>>_vars
    /\ [][(pc \in RunningPcs /\ pc' \notin RunningPcs) =>
            \/ pc' = "interrupted"
            \/ pc = "rescan" /\ pc' = "lost" /\ lost' = "periodic"]_vars

\* C9 witness: the loop is still tapping after a successful re-scan.
C9_Witness ==
    /\ pc = "tap" /\ taps = MaxCount /\ locates = 2
    /\ ~interrupted /\ lost = "no"

\* C10: no tap is issued between the start of a periodic check and its
\* outcome, and exactly one line-89 delay separates a tap from the next one.
C10_TapsAndRescansSequential ==
    [][TapStep => /\ ~revalidating
                  /\ lost = "no"
                  /\ taps > 0 => sleepsSinceTap = 1]_vars

\* C10 witness: a tap right after a re-scan that succeeded.
C10_Witness ==
    /\ pc = "sleep" /\ sleepsSinceTap = 0 /\ taps = 2
    /\ locates = 2 /\ ~revalidating /\ location # None

\* C11: once main has resolved and validated the settings, the value that
\* run_automation and find_template read for every setting with a CLI
\* override is the override, and the settings they read pass validate().
C11_LoopReadsResolvedSettings ==
    mainPc = "device" =>
        /\ args.threshold # None =>
            LoopReads("threshold") = Get(args.threshold)
        /\ args.click_speed # None =>
            /\ LoopReads("min_delay") = args.click_speed[1]
            /\ LoopReads("max_delay") = args.click_speed[2]
        /\ args.scan_interval # None =>
            LoopReads("scan_interval") = ScanIntervalValue(Get(args.scan_interval))
        /\ args.coordinates # None =>
            /\ LoopReads("x") = Some(args.coordinates[1])
            /\ LoopReads("y") = Some(args.coordinates[2])
        /\ args.click_mode # None => LoopReads("mode") = Get(args.click_mode)
        /\ validate(heap, refs["global"])

\* C12: with --scan-interval 0 the scan interval the loop reads is one for
\* which the periodic check is never due, whatever the file and defaults say.
C12_ZeroDisablesRescan ==
    (mainPc = "device" /\ args.scan_interval = Some(0)) =>
        LET si == LoopReads("scan_interval")
        IN  \A el \in 0..(IF si = None THEN 0 ELSE Get(si) + 1) : ~ScanDue(si, el)

\* C13: when startup fails at the device stage, adb is missing or no device
\* is connected; otherwise the loop is started with a device id, the
\* --device i-th of the list when the flag is given.
C13_DeviceSelection ==
    /\ (mainPc = "exited" /\ failedAt \in {"device", "exception"}) =>
            ~(adb_installed /\ devices # <<>>)
    /\ (device_id # None /\ args.device # None
            /\ Get(args.device) < Len(devices)) =>
            Get(device_id) = devices[Get(args.device) + 1]

\* C14: with an invalid CLI override (threshold outside [0,1], a negative
\* delay or min > max, a negative scan interval, a negative coordinate) main
\* never gets past the override stage; main gets past validation only with
\* settings that pass validate(); and a startup refused at either stage exits
\* with status 1 without any adb command, device id or call of the loop.
C14_InvalidStartupFails ==
    LET a == args
        badOverride ==
            \/ a.threshold # None
                /\ (Get(a.threshold) < 0 \/ Get(a.threshold) > 100)
            \/ a.click_speed # None
                /\ (a.click_speed[1] < 0 \/ a.click_speed[2] < 0
                    \/ a.click_speed[1] > a.click_speed[2])
            \/ a.scan_interval # None /\ Get(a.scan_interval) < 0
            \/ a.coordinates # None
                /\ (a.coordinates[1] < 0 \/ a.coordinates[2] < 0)
    IN  mainPc # "not_started" =>
        /\ badOverride =>
            /\ mainPc \in {"import", "construct", "overrides", "exited"}
            /\ mainPc = "exited" => failedAt = "override"
        /\ (\/ mainPc \in {"template", "device", "run"}
            \/ mainPc = "exited" /\ failedAt \notin {"override", "validate"}) =>
                validate(heap, refs["main"])
        /\ failedAt \in {"override", "validate"} =>
            /\ mainPc = "exited" /\ main_exit = "1"
            /\ deviceOps = 0 /\ device_id = None /\ pc = "not_called"

\* C14 witness: --threshold 0.9 was accepted and set, then the negative
\* coordinate ended the process.
C14_Witness ==
    /\ mainPc = "exited" /\ failedAt = "override" /\ main_exit = "1"
    /\ args.threshold = Some(90) /\ args.coordinates = <<-1, 5>>
    /\ get(heap, refs["main"], "threshold") = 90
    /\ deviceOps = 0

\* C15: in coordinates mode, once the loop has read an x or y that is absent
\* or negative, it is at its configuration error or has exited with it
\* (status 1), and no tap, capture or clean_up has been issued.
C15_BadCoordinatesFailFast ==
    (/\ click_mode = "coordinates"
     /\ pc \notin {"not_called", "start"}
     /\ (x = None \/ y = None \/ Get(x) < 0 \/ Get(y) < 0)) =>
        /\ pc \in {"config_error", "exited"}
        /\ pc = "exited" => reason = "ConfigurationError" /\ exit_status = "1"
        /\ taps = 0 /\ locates = 0 /\ cleanupLocal = "none"

\* C16: a find_template call whose capture failed, or whose screenshot or
\* template could not be decoded, returns something else than the call on a
\* valid capture with a best score below the threshold does.
C16_OutcomesDistinguishable ==
    (locatorPc = "returned"
        /\ Outcome(capture, call_threshold) \in {"capture_failed", "decode_failed"}) =>
        \A s \in LocatorScreens :
            Outcome(s, call_threshold) = "not_found" =>
                result # find_template(s, call_threshold)

\* C17: a find_template call on a valid capture returns a point if and only
\* if the best score is at least the threshold; the equal score is accepted.
C17_ThresholdInclusive ==
    (/\ locatorPc = "returned"
     /\ ~capture.raises /\ capture.rc = 0
     /\ capture.screenshot /\ capture.template) =>
        /\ capture.max_val > call_threshold => result # None
        /\ capture.max_val = call_threshold => result # None
        /\ capture.max_val < call_threshold => result = None

\* C17 witness: the best score equals the threshold and a point was returned.
C17_Witness ==
    /\ locatorPc = "returned" /\ result # None
    /\ capture.max_val = call_threshold /\ call_threshold = 80

\* C18: the point returned for an accepted match is the top-left of the best
\* match plus half the template's width and height, halves rounded down;
\* top-left (100,100) with a 40 x 20 template gives (120,110).
C18_CentreOfMatch ==
    (locatorPc = "returned" /\ result # None) =>
        LET dx == result[1] - capture.max_loc[1]
            dy == result[2] - capture.max_loc[2]
        IN  /\ 2 * dx <= capture.size[1] /\ capture.size[1] < 2 * dx + 2
            /\ 2 * dy <= capture.size[2] /\ capture.size[2] < 2 * dy + 2
            /\ (capture.max_loc = <<100, 100>> /\ capture.size = <<40, 20>>) =>
                    result = <<120, 110>>

\* C18 witness: an odd-sized template, the halves rounded down.
C18_Witness ==
    /\ locatorPc = "returned"
    /\ capture.max_loc = <<7, 3>> /\ capture.size = <<5, 9>>
    /\ result = <<9, 7>>

\* C19: the delay a cycle sleeps at line 89 lies between the min_delay and
\* max_delay read at entry, is exactly that value when the two are equal, and
\* is the one delay drawn since the cycle's tap.
C19_DelayWithinWindow ==
    delay # None =>
        /\ min_delay <= Get(delay) /\ Get(delay) <= max_delay
        /\ min_delay = max_delay => Get(delay) = min_delay
        /\ sleepsSinceTap = 1

\* C19 witness: a later cycle slept the longest delay of a window that is
\* not a single value.
C19_Witness ==
    /\ pc = "loop_top" /\ delay = Some(max_delay) /\ min_delay < max_delay
    /\ taps = MaxCount /\ sleepsSinceTap = 1

\* C20: no failure of a clean_up step leaves run_automation as an error, a
\* clean_up that ran reached its device step whether or not the local step
\* failed, and the periodic clean_up is followed by the re-scan (template
\* mode) or the tap (coordinates mode) with the process still running,
\* whatever the clean_up's outcome.
C20_CleanUpBestEffort ==
    /\ [](/\ reason # "Error"
          /\ cleanupLocal # "none" => cleanupDevice)
    /\ [][(pc = "periodic_cleanup" /\ pc' \notin {"periodic_cleanup", "interrupted"}) =>
            /\ pc' = IF click_mode = "template" THEN "rescan" ELSE "tap"
            /\ exit_status' = "running"]_vars

\* C20 witness: the local step of a periodic clean_up failed, the device step
\* was still reached, and the loop went on to its re-scan.
C20_Witness ==
    /\ pc = "rescan" /\ cleanupLocal = "failed" /\ cleanupDevice
    /\ cleanupFailed /\ ~interrupted /\ exit_status = "running"

\* C22: every tap_screen call that fails, by an exception or by a non-zero
\* exit status of adb, has written a log entry before the loop goes on.
C22_FailedTapLogged ==
    ~tapOk => tapLogged

\* C23: at the top of a cycle the periodic check is entered exactly when a
\* scan interval is set and strictly more than the interval has passed since
\* the scan timestamp was set (an equal time does not trigger); the timestamp
\* is set when the loop is entered, in both modes, and again when a check is
\* entered, so two checks in a row are more than one interval apart.
C23_RescanWhenIntervalExceeded ==
    [][/\ (pc = "start" /\ pc' = "loop_top") => elapsed' = 0
       /\ (pc = "loop_top" /\ pc' \notin {"loop_top", "interrupted"}) =>
            /\ pc' \in {"periodic_cleanup", "tap"}
            /\ pc' = "periodic_cleanup" <=>
                   (scan_interval # None /\ elapsed > Get(scan_interval))
            /\ pc' = "periodic_cleanup" => elapsed' = 0 /\ revalidating'
            /\ pc' = "tap" => elapsed' = elapsed /\ revalidating' = revalidating
       /\ (pc' = "periodic_cleanup" /\ pc # "periodic_cleanup") =>
            pc = "loop_top"]_vars

\* C23 witness: template mode, no check yet; exactly the interval has passed
\* since loop entry and the cycle went on to tap without a check.
C23_Witness ==
    /\ click_mode = "template" /\ scan_interval # None
    /\ pc = "tap" /\ locates = 1 /\ taps >= 1
    /\ elapsed = Get(scan_interval) /\ elapsed > 0

\* C24: in template mode the location is replaced only by a find_template
\* call that succeeded, a successful re-scan makes its result the location
\* that is tapped, and every point handed to tap_screen lies within
\* random_offset of the result of the latest successful call (the initial one
\* before the first re-scan), not of an earlier one.
C24_TapsFollowLatestScan ==
    /\ []((click_mode = "template" /\ lastTap # None) =>
            /\ location # None
            /\ current_location = location
            /\ InBox(lastTap, location, random_offset))
    /\ [][click_mode = "template" =>
            /\ location' # location => pc \in {"start", "rescan"}
            /\ (location' # location /\ location' # None) =>
                   last_location' = location'
            /\ last_location' # last_location => last_location' = location'
            /\ (pc = "tap" /\ pc' = "tap_call") => current_location' = location]_vars

\* C24 witness: after a successful re-scan that found the target at (2, 2), a
\* later cycle is about to tap a point that is not within the offset of the
\* other place the target can be found at.
C24_Witness ==
    /\ click_mode = "template" /\ pc = "tap_call" /\ locates = 2 /\ taps >= 1
    /\ location = <<2, 2>> /\ lastTap = <<3, 3>> /\ ~InBox(lastTap, <<0, 1>>, random_offset)

\* C25: in coordinates mode the location is the configured (x, y) from loop
\* entry on; a periodic check runs clean_up and restarts the scan timestamp
\* but calls no find_template and leaves the location alone, every point
\* handed to tap_screen lies within random_offset of (x, y), and the loop
\* never ends with TargetLost.
C25_CoordinatesStayFixed ==
    /\ [](click_mode = "coordinates" =>
            /\ location # None => location = <<Get(x), Get(y)>>
            /\ lastTap # None =>
                   /\ location # None
                   /\ current_location = location
                   /\ InBox(lastTap, <<Get(x), Get(y)>>, random_offset)
            /\ lost = "no" /\ reason # "TargetLost")
    /\ [][(click_mode = "coordinates" /\ pc = "periodic_cleanup"
             /\ pc' \notin {"periodic_cleanup", "interrupted"}) =>
            /\ pc' = "tap"
            /\ elapsed' <= Max(OpDurations)
            /\ cleanupsSinceInterrupt' = 0 /\ cleanupLocal' # "none"
            /\ location' = location /\ last_location' = last_location
            /\ locates' = locates]_vars

\* C25 witness: coordinates mode, a periodic check has run (its clean_up
\* failed) and the next tap is drawn at the corner of the box around (x, y).
C25_Witness ==
    /\ click_mode = "coordinates" /\ scan_interval # None /\ random_offset > 0
    /\ pc = "tap_call" /\ cleanupFailed /\ ~interrupted /\ taps >= 1
    /\ lastTap = <<Get(x) - random_offset, Get(y) + random_offset>>

\* C27: with non-negative fixed coordinates and a non-negative random_offset,
\* both components of every point handed to tap_screen are >= 0, also when
\* the location is closer to the origin than random_offset.
C27_TapPointOnScreen ==
    (/\ lastTap # None
     /\ random_offset >= 0
     /\ click_mode = "coordinates" => (Get(x) >= 0 /\ Get(y) >= 0)) =>
        lastTap[1] >= 0 /\ lastTap[2] >= 0

C29_NoCaptureLeftAtExit ==
    (/\ pc = "exited"
     /\ reason \in {"InitialAcquisitionFailed", "TargetLost", "UserCancelled"}
     /\ ~cleanupFailed) =>
        artifacts = 0

\* C21: cleanup_temp_files removes only files older than max_age_hours: a
\* regular file of the directory that is younger than max_age_hours when the
\* call is made is still there when the call has returned.
C21_YoungFilesKept ==
    cleanupPc = "returned" =>
        \A f \in TempNames :
            (/\ tmp_before[f] # Absent
             /\ tmp_before[f].kind = "file"
             /\ tmp_before[f].age_hours < max_age_hours) =>
                tmp_files[f] = tmp_before[f]

\* a number that is at least n (nan is not, nor is a string or null)
AtLeast(v, n) == v # None /\ v[1] = "num" /\ v[2] >= n

\* C26: validate() returns True exactly when min_delay >= 0, max_delay >= 0,
\* min_delay <= max_delay, 0 <= threshold <= 1, scan_interval is null or
\* >= 1, random_offset >= 0, the mode is template or coordinates and, in
\* coordinates mode, x and y are present, numeric and non-negative; in every
\* other case it returns False.
C26_ValidateExact ==
    validatePc = "returned" =>
        valid =
            (/\ AtLeast(candidate.min_delay, 0)
             /\ AtLeast(candidate.max_delay, 0)
             /\ AtLeast(candidate.max_delay, candidate.min_delay[2])
             /\ AtLeast(candidate.threshold, 0)
             /\ ~AtLeast(candidate.threshold, 101)
             /\ candidate.scan_interval = None \/ AtLeast(candidate.scan_interval, 1)
             /\ AtLeast(candidate.random_offset, 0)
             /\ candidate.mode \in {PyStr("template"), PyStr("coordinates")}
             /\ candidate.mode = PyStr("coordinates") =>
                    AtLeast(candidate.x, 0) /\ AtLeast(candidate.y, 0))

\* C30: Config instances are isolated: once main has applied its overrides
\* with set() on its own instance, the class-level DEFAULT_CONFIG still holds
\* its literal values and the module's instance still returns for every key
\* what a freshly built instance returns, whether the instances were built
\* from a file or from the defaults.
C30_InstancesIsolated ==
    mainPc \in {"validate", "template", "device", "run", "exited"} =>
        LET fresh == load_config([o \in Owners |-> DEFAULT_CONFIG], "global",
                                 config_file, writable)
        IN  /\ heap["default"] = DEFAULT_CONFIG
            /\ \A k \in Keys :
                   get(heap, refs["global"], k) = get(fresh.heap, fresh.refs, k)

====
